---- MODULE Spec2Model ----
(***************************************************************************)
(* A model of tribal_land_checker.py: the TribalLandChecker object (its    *)
(* boundary set and its geocoding cache), the two geocoding providers it   *)
(* calls, and process_excel's loop over the rows of the input table.       *)
(*                                                                         *)
(* Python values are encoded so that TLC can compare them:                 *)
(*   - a str is the sequence of its characters, <<" ", "a">> is " a";      *)
(*   - an Optional value is a sequence: None (and NaN for a number) is     *)
(*     <<>>, a coordinate tuple (lat, lon) is <<lat, lon>>, a set cell     *)
(*     holding x is <<x>>;                                                 *)
(*   - a missing spreadsheet cell (NaN) is the sequence NaN, which is no   *)
(*     string of the model;                                                *)
(*   - a geometry is the set of the points <<x, y>> it contains.           *)
(***************************************************************************)
EXTENDS Integers, Sequences, FiniteSets, TLC

VARIABLES
  pc,                \* where main() is: "new", "constructed", "loop", "done",
                     \* "aborted" (an exception left main), "api" (SpecMember)
  tribal_boundaries, \* self.tribal_boundaries: <<>> (None) or <<gdf>>
  geocoding_cache,   \* self.geocoding_cache: a function str -> Optional coordinate
  df,                \* process_excel's table: a sequence of rows
  idx,               \* the row the loop of process_excel is at (1-based)
  output,            \* the table written by df.to_excel: <<>> or <<df>>
  summary,           \* df['On_Tribal_Land'].value_counts(), printed at the end
  checked,           \* the last check_tribal_land call: <<>> or <<[lat, lon, ret]>>
  log                \* history: the calls made so far, in order

vars == <<pc, tribal_boundaries, geocoding_cache, df, idx, output, summary, checked, log>>

----------------------------------------------------------------------------
(* Bounds of the model *)

MaxRows == 2
MaxBoundaries == 3

----------------------------------------------------------------------------
(* Values *)

None == <<>>
NaN == <<"NaN">>
NoLabel == "None"

Whitespace == {" "}

\* The address cells a table may hold after pd.read_excel: a missing or empty
\* cell is read as NaN, any other text is kept as it is.
AddressCells == {NaN, <<" ">>, <<"a">>, <<" ", "a", " ">>, <<"b">>}

Tables == UNION {[1..n -> AddressCells] : n \in 0..MaxRows}

Labels == {"Yes", "No", "Could Not Geocode", "No Data"}

----------------------------------------------------------------------------
(* str.strip() *)

RECURSIVE lstrip(_)
lstrip(s) ==
  IF s = <<>> THEN s
  ELSE IF Head(s) \in Whitespace THEN lstrip(Tail(s)) ELSE s

RECURSIVE rstrip(_)
rstrip(s) ==
  IF s = <<>> THEN s
  ELSE IF s[Len(s)] \in Whitespace THEN rstrip(SubSeq(s, 1, Len(s) - 1)) ELSE s

strip(s) == rstrip(lstrip(s))

\* pd.isna(address)
isna(address) == address = NaN

----------------------------------------------------------------------------
(* The two geocoding providers: what a request may answer *)

\* float(text): <<x>> for a numeric text, <<>> when float() raises ValueError
float(text) ==
  CASE text = "0.0" -> <<0>>
    [] text = "35.0" -> <<35>>
    [] text = "-110.0" -> <<-110>>
    [] OTHER -> <<>>

\* Nominatim's result items: lat and lon are string encoded
P1Matches ==
  { [lat |-> "0.0", lon |-> "0.0"],
    [lat |-> "35.0", lon |-> "-110.0"],
    [lat |-> "n/a", lon |-> "0.0"] }

\* requests.get(url, ...), raise_for_status() and response.json() for Nominatim:
\* "error" when one of them raises, else the JSON list (limit=1)
P1Responses ==
  {[status |-> "error", data |-> <<>>], [status |-> "ok", data |-> <<>>]}
    \cup {[status |-> "ok", data |-> <<m>>] : m \in P1Matches}

\* The Census geocoder's addressMatches[i].coordinates: x is the longitude,
\* y the latitude, both numbers
P2Matches == { [x |-> -110, y |-> 35], [x |-> 20, y |-> 10] }

\* requests.get(census_url, ...), raise_for_status() and response.json():
\* "error" when one of them raises, else result.addressMatches
P2Responses ==
  {[status |-> "error", data |-> <<>>], [status |-> "ok", data |-> <<>>]}
    \cup {[status |-> "ok", data |-> <<m>>] : m \in P2Matches}
    \cup {[status |-> "ok", data |-> <<[x |-> 20, y |-> 10], [x |-> -110, y |-> 35]>>]}

----------------------------------------------------------------------------
(* History events *)

\* e: "geocode" (a geocode_address call; q its argument, r "hit" when line 106
\*    answered it and "miss" otherwise, v what it returned),
\*    "P1" / "P2" (a request to a provider; q the query, r how it ended, v the
\*    data it answered), "sleep" (time.sleep(1)), "load" (gpd.read_file of the
\*    boundaries file), "download" (gpd.read_file of the remote archive)
Event(e, q, r, v) == [e |-> e, row |-> 0, q |-> q, r |-> r, v |-> v]

\* self.geocoding_cache[key] = value
CacheStore(cache, key, value) ==
  [k \in DOMAIN cache \cup {key} |-> IF k = key THEN value ELSE cache[k]]

----------------------------------------------------------------------------
(* geocode_address *)

\* The lookup of line 105: the argument as it was passed
CacheKey(address) == address

\* Mutant: the except branch forgets the cache
GeocodeFails_NotCached(cache, address, events) ==
  [ret |-> None, cache |-> cache, events |-> events]

\* The except branch, lines 166-169
GeocodeFails(cache, address, events) ==
  [ret |-> None, cache |-> CacheStore(cache, address, None), events |-> events]

\* Mutant: the Census geocoder is paced like Nominatim
CensusGeocoder_Paced(cache, address, r2, events) ==
  LET call(r) == Event("P2", address, r, r2.data) IN
  IF r2.status = "error"
  THEN GeocodeFails(cache, address, events \o <<call("error")>>)
  ELSE IF r2.data # <<>>
  THEN LET match == r2.data[1]
           result == <<match.y, match.x>>
       IN [ret |-> result,
           cache |-> CacheStore(cache, address, result),
           events |-> events \o <<call("match"), Event("sleep", address, "", None)>>]
  ELSE [ret |-> None,
        cache |-> CacheStore(cache, address, None),
        events |-> events \o <<call("empty")>>]

\* Mutant: the Census coordinates are read as (x, y)
CensusGeocoder_XY(cache, address, r2, events) ==
  LET call(r) == Event("P2", address, r, r2.data) IN
  IF r2.status = "error"
  THEN GeocodeFails(cache, address, events \o <<call("error")>>)
  ELSE IF r2.data # <<>>
  THEN LET match == r2.data[1]
           result == <<match.x, match.y>>
       IN [ret |-> result,
           cache |-> CacheStore(cache, address, result),
           events |-> events \o <<call("match")>>]
  ELSE [ret |-> None,
        cache |-> CacheStore(cache, address, None),
        events |-> events \o <<call("empty")>>]

\* Option 2, lines 142-164, reached when Nominatim answered an empty list
CensusGeocoder(cache, address, r2, events) ==
  LET call(r) == Event("P2", address, r, r2.data) IN
  IF r2.status = "error"
  THEN GeocodeFails(cache, address, events \o <<call("error")>>)
  ELSE IF r2.data # <<>>
  THEN LET match == r2.data[1]
           result == <<match.y, match.x>>
       IN [ret |-> result,
           cache |-> CacheStore(cache, address, result),
           events |-> events \o <<call("match")>>]
  ELSE [ret |-> None,
        cache |-> CacheStore(cache, address, None),
        events |-> events \o <<call("empty")>>]

\* Mutant: a Nominatim error falls back to the Census geocoder
Nominatim_ErrorFallsBack(cache, raw, r1, r2) ==
  LET address == strip(raw)
      call(r) == Event("P1", address, r, r1.data)
  IN
  IF r1.status = "error"
  THEN CensusGeocoder(cache, address, r2, <<call("error")>>)
  ELSE IF r1.data # <<>>
  THEN LET lat == float(r1.data[1].lat)
           lon == float(r1.data[1].lon)
       IN IF lat = <<>> \/ lon = <<>>
          THEN GeocodeFails(cache, address, <<call("malformed")>>)
          ELSE LET result == <<lat[1], lon[1]>> IN
               [ret |-> result,
                cache |-> CacheStore(cache, address, result),
                events |-> <<call("match"), Event("sleep", address, "", None)>>]
  ELSE CensusGeocoder(cache, address, r2, <<call("empty")>>)

\* Option 1, lines 113-140, then Option 2
Nominatim(cache, raw, r1, r2) ==
  LET address == strip(raw)
      call(r) == Event("P1", address, r, r1.data)
  IN
  IF r1.status = "error"
  THEN GeocodeFails(cache, address, <<call("error")>>)
  ELSE IF r1.data # <<>>
  THEN LET lat == float(r1.data[1].lat)
           lon == float(r1.data[1].lon)
       IN IF lat = <<>> \/ lon = <<>>
          THEN GeocodeFails(cache, address, <<call("malformed")>>)
          ELSE LET result == <<lat[1], lon[1]>> IN
               [ret |-> result,
                cache |-> CacheStore(cache, address, result),
                events |-> <<call("match"), Event("sleep", address, "", None)>>]
  ELSE CensusGeocoder(cache, address, r2, <<call("empty")>>)

\* geocode_address(address) with the cache as it is and the providers answering
\* r1 and r2: what it returns, the cache it leaves, the requests it makes
geocode_address(cache, address, r1, r2) ==
  LET hit == CacheKey(address) \in DOMAIN cache
      g == IF hit
           THEN [ret |-> cache[CacheKey(address)], cache |-> cache, events |-> <<>>]
           ELSE Nominatim(cache, address, r1, r2)
  IN [g EXCEPT !.events =
        <<Event("geocode", address, IF hit THEN "hit" ELSE "miss", g.ret)>> \o g.events]

----------------------------------------------------------------------------
(* Boundary data *)

\* A row of the boundary table: GEOID ("NaN" when missing) and the geometry
Feature(geoid, geometry) == [GEOID |-> geoid, geometry |-> geometry]

\* Geometries in longitude/latitude degrees, as the sets of points <<lon, lat>>
\* they contain. Swapped holds the points of the others with the axes exchanged.
Navajo == {<<-110, 35>>}
Tohono == {<<20, 10>>}
Swapped == {<<35, -110>>, <<10, 20>>}
Polys == {Navajo, Tohono, Swapped}

\* The same geometry in a projected reference system (coordinates in other units)
Projected(geometry) == {<<p[1] * 100, p[2] * 100>> : p \in geometry}

\* GeoDataFrame.to_crs('EPSG:4326') on one geometry given in reference system crs:
\* NAD83 degrees (EPSG:4269) agree with WGS84 degrees at this resolution
Transform(geometry, crs) ==
  IF crs = "EPSG:3857"
  THEN {<<p[1] \div 100, p[2] \div 100>> : p \in geometry}
  ELSE geometry

to_crs(gdf) ==
  [crs |-> "EPSG:4326",
   rows |-> [i \in 1..Len(gdf.rows) |->
               [gdf.rows[i] EXCEPT !.geometry = Transform(@, gdf.crs)]]]

\* Files the operator may pass as the custom boundaries file
BoundaryFiles ==
  { [crs |-> "EPSG:4326", rows |-> <<>>],
    [crs |-> "EPSG:3857",
     rows |-> <<Feature("0002", Projected(Tohono)), Feature("0001", Projected(Navajo))>>] }

\* The TIGER/Line archive of line 57 (NAD83), one row without GEOID
RemoteArchive ==
  [crs |-> "EPSG:4269",
   rows |-> <<Feature("NaN", Swapped), Feature("0001", Navajo)>>]

\* gpd.read_file(url): raises, or answers the archive
DownloadResponses ==
  {[status |-> "error", gdf |-> <<>>], [status |-> "ok", gdf |-> <<RemoteArchive>>]}

\* gpd.read_file(path): raises, or answers the file
LoadResponses ==
  {[status |-> "error", gdf |-> <<>>]}
    \cup {[status |-> "ok", gdf |-> <<f>>] : f \in BoundaryFiles}

\* load_tribal_boundaries(path), lines 85-88: the value of self.tribal_boundaries
load_tribal_boundaries(file) ==
  IF file.crs # "EPSG:4326" THEN to_crs(file) ELSE file

\* download_tribal_boundaries(), lines 60-67, when read_file answered gdf
download_tribal_boundaries(gdf) ==
  [gdf EXCEPT !.rows = SelectSeq(@, LAMBDA f : f.GEOID # "NaN")]

----------------------------------------------------------------------------
(* check_tribal_land *)

\* shapely's Point(x, y) and geometry.contains(point)
Point(x, y) == <<x, y>>
contains(geometry, point) == point \in geometry

\* Mutant: the point is built as (lat, lon)
MakePoint_LatLon(lat, lon) == Point(lat, lon)

\* Line 187
MakePoint(lat, lon) == Point(lon, lat)

\* The loop of lines 190-195 over the rows, in their order
RECURSIVE BoundaryLoop(_, _)
BoundaryLoop(rows, point) ==
  IF rows = <<>> THEN FALSE
  ELSE IF contains(Head(rows).geometry, point) THEN TRUE
  ELSE BoundaryLoop(Tail(rows), point)

\* Lines 186-195, with the boundary table gdf loaded
check_tribal_land(gdf, lat, lon) == BoundaryLoop(gdf.rows, MakePoint(lat, lon))

\* Mutant: a failed download leaves an empty boundary table instead of raising
EnsureBoundaries_EmptyOnFailure(boundaries, d) ==
  IF boundaries = None
  THEN IF d.status = "ok"
       THEN <<download_tribal_boundaries(d.gdf[1])>>
       ELSE <<[crs |-> "EPSG:4326", rows |-> <<>>]>>
  ELSE boundaries

\* Lines 182-184: the boundary table check_tribal_land goes on with, <<>> when
\* the download raised
EnsureBoundaries(boundaries, d) ==
  IF boundaries = None
  THEN IF d.status = "ok" THEN <<download_tribal_boundaries(d.gdf[1])>> ELSE None
  ELSE boundaries

DownloadEvents(boundaries, d) ==
  IF boundaries = None THEN <<Event("download", <<>>, d.status, None)>> ELSE <<>>

----------------------------------------------------------------------------
(* process_excel helpers *)

\* A row of df after lines 240-242
NewRow(address) ==
  [address |-> address, Latitude |-> None, Longitude |-> None, On_Tribal_Land |-> NoLabel]

\* Mutant: the numbers decide, (0.0, 0.0) counts as nothing
truthy_ByValue(coords) == coords # None /\ (coords[1] # 0 \/ coords[2] # 0)

\* `if coords:` of line 259: a tuple of two floats is true, None is false
truthy(coords) == coords # None

\* Mutant: only Yes is written
YesNo_OnlyYes(on_tribal) == IF on_tribal THEN "Yes" ELSE NoLabel

\* The label of line 266
YesNo(on_tribal) == IF on_tribal THEN "Yes" ELSE "No"

\* df['On_Tribal_Land'].value_counts(): the labels present, each with its count
value_counts(table) ==
  LET present == {table[i].On_Tribal_Land : i \in DOMAIN table} \ {NoLabel} IN
  [l \in present |-> Cardinality({i \in DOMAIN table : table[i].On_Tribal_Land = l})]

WithRow(events, i) == [k \in 1..Len(events) |-> [events[k] EXCEPT !.row = i]]

----------------------------------------------------------------------------
(* The run of main(): construction, then process_excel *)

Init ==
  /\ pc = "new"
  /\ tribal_boundaries = None
  /\ geocoding_cache = <<>>
  /\ df = <<>>
  /\ idx = 0
  /\ output = None
  /\ summary = <<>>
  /\ checked = None
  /\ log = <<>>

\* __init__ with no boundaries file (lines 39-42)
ConstructDefault ==
  /\ pc = "new"
  /\ pc' = "constructed"
  /\ UNCHANGED <<tribal_boundaries, geocoding_cache, df, idx, output, summary, checked, log>>

\* __init__ with a boundaries file that loads (lines 39-43, 83-89)
ConstructWithFile ==
  /\ pc = "new"
  /\ \E l \in LoadResponses :
       /\ l.status = "ok"
       /\ tribal_boundaries' = <<load_tribal_boundaries(l.gdf[1])>>
       /\ log' = log \o <<Event("load", <<>>, l.status, None)>>
  /\ pc' = "constructed"
  /\ UNCHANGED <<geocoding_cache, df, idx, output, summary, checked>>

\* __init__ with a boundaries file that cannot be read (lines 90-92): the
\* exception leaves main
ConstructFails ==
  /\ pc = "new"
  /\ \E l \in LoadResponses :
       /\ l.status = "error"
       /\ log' = log \o <<Event("load", <<>>, l.status, None)>>
  /\ pc' = "aborted"
  /\ UNCHANGED <<tribal_boundaries, geocoding_cache, df, idx, output, summary, checked>>

\* process_excel up to the loop (lines 214-245)
ReadExcel ==
  /\ pc = "constructed"
  /\ \E table \in Tables : df' = [i \in DOMAIN table |-> NewRow(table[i])]
  /\ idx' = 1
  /\ pc' = "loop"
  /\ UNCHANGED <<tribal_boundaries, geocoding_cache, output, summary, checked, log>>

\* pd.read_excel raises (line 217): the exception leaves main
ReadExcelFails ==
  /\ pc = "constructed"
  /\ pc' = "aborted"
  /\ UNCHANGED <<tribal_boundaries, geocoding_cache, df, idx, output, summary, checked, log>>

InLoop == pc = "loop" /\ idx <= Len(df)

\* Mutant: the loop steps over the row after a NaN address
RowNoData_SkipsNext ==
  /\ InLoop
  /\ isna(df[idx].address)
  /\ df' = [df EXCEPT ![idx].On_Tribal_Land = "No Data"]
  /\ idx' = idx + 2
  /\ UNCHANGED <<pc, tribal_boundaries, geocoding_cache, output, summary, checked, log>>

\* One turn of the loop for a NaN address (lines 247-252)
RowNoData ==
  /\ InLoop
  /\ isna(df[idx].address)
  /\ df' = [df EXCEPT ![idx].On_Tribal_Land = "No Data"]
  /\ idx' = idx + 1
  /\ UNCHANGED <<pc, tribal_boundaries, geocoding_cache, output, summary, checked, log>>

\* One turn of the loop when geocode_address returns nothing (lines 257, 269-271)
RowCouldNotGeocode ==
  /\ InLoop
  /\ ~isna(df[idx].address)
  /\ \E r1 \in P1Responses, r2 \in P2Responses :
       LET g == geocode_address(geocoding_cache, df[idx].address, r1, r2) IN
       /\ ~truthy(g.ret)
       /\ geocoding_cache' = g.cache
       /\ log' = log \o WithRow(g.events, idx)
  /\ df' = [df EXCEPT ![idx].On_Tribal_Land = "Could Not Geocode"]
  /\ idx' = idx + 1
  /\ UNCHANGED <<pc, tribal_boundaries, output, summary, checked>>

\* One turn of the loop when geocode_address returns a coordinate and the
\* boundaries are there or can be downloaded (lines 257-268)
RowClassified ==
  /\ InLoop
  /\ ~isna(df[idx].address)
  /\ \E r1 \in P1Responses, r2 \in P2Responses, d \in DownloadResponses :
       LET g == geocode_address(geocoding_cache, df[idx].address, r1, r2)
           b == EnsureBoundaries(tribal_boundaries, d)
       IN
       /\ truthy(g.ret)
       /\ b # None
       /\ LET lat == g.ret[1]
              lon == g.ret[2]
              on_tribal == check_tribal_land(b[1], lat, lon)
          IN /\ df' = [df EXCEPT ![idx].Latitude = <<lat>>,
                                 ![idx].Longitude = <<lon>>,
                                 ![idx].On_Tribal_Land = YesNo(on_tribal)]
             /\ checked' = <<[lat |-> lat, lon |-> lon, ret |-> on_tribal]>>
       /\ geocoding_cache' = g.cache
       /\ tribal_boundaries' = b
       /\ log' = log \o WithRow(g.events \o DownloadEvents(tribal_boundaries, d), idx)
  /\ idx' = idx + 1
  /\ UNCHANGED <<pc, output, summary>>

\* Mutant: the failed download is swallowed and the table is written as it is
RowDownloadFails_StillSaves ==
  /\ InLoop
  /\ ~isna(df[idx].address)
  /\ \E r1 \in P1Responses, r2 \in P2Responses, d \in DownloadResponses :
       LET g == geocode_address(geocoding_cache, df[idx].address, r1, r2)
           b == EnsureBoundaries(tribal_boundaries, d)
       IN
       /\ truthy(g.ret)
       /\ b = None
       /\ df' = [df EXCEPT ![idx].Latitude = <<g.ret[1]>>, ![idx].Longitude = <<g.ret[2]>>]
       /\ geocoding_cache' = g.cache
       /\ log' = log \o WithRow(g.events \o DownloadEvents(tribal_boundaries, d), idx)
  /\ output' = <<df'>>
  /\ pc' = "done"
  /\ UNCHANGED <<tribal_boundaries, idx, summary, checked>>

\* One turn of the loop when geocode_address returns a coordinate and the
\* download of the boundaries raises (lines 257-265, 69-74): the exception
\* leaves process_excel and main
RowDownloadFails ==
  /\ InLoop
  /\ ~isna(df[idx].address)
  /\ \E r1 \in P1Responses, r2 \in P2Responses, d \in DownloadResponses :
       LET g == geocode_address(geocoding_cache, df[idx].address, r1, r2)
           b == EnsureBoundaries(tribal_boundaries, d)
       IN
       /\ truthy(g.ret)
       /\ b = None
       /\ df' = [df EXCEPT ![idx].Latitude = <<g.ret[1]>>, ![idx].Longitude = <<g.ret[2]>>]
       /\ geocoding_cache' = g.cache
       /\ log' = log \o WithRow(g.events \o DownloadEvents(tribal_boundaries, d), idx)
  /\ pc' = "aborted"
  /\ UNCHANGED <<tribal_boundaries, idx, output, summary, checked>>

\* After the loop: the table is written and the summary printed (lines 273-286)
Save ==
  /\ pc = "loop"
  /\ idx > Len(df)
  /\ output' = <<df>>
  /\ summary' = value_counts(df)
  /\ pc' = "done"
  /\ UNCHANGED <<tribal_boundaries, geocoding_cache, df, idx, checked, log>>

Next ==
  \/ ConstructDefault
  \/ ConstructWithFile
  \/ ConstructFails
  \/ ReadExcel
  \/ ReadExcelFails
  \/ RowNoData
  \/ RowCouldNotGeocode
  \/ RowClassified
  \/ RowDownloadFails
  \/ Save

Spec == Init /\ [][Next]_vars

----------------------------------------------------------------------------
(* check_tribal_land called on a checker object, for any boundary table *)

\* The boundary tables of up to MaxBoundaries rows over Polys
BoundaryTables ==
  UNION {[1..n -> {Feature("0001", g) : g \in Polys}] : n \in 0..MaxBoundaries}

\* The (lat, lon) arguments tried
CheckArgs == {<<0, 0>>, <<35, -110>>, <<10, 20>>}

InitMember ==
  /\ pc = "api"
  /\ tribal_boundaries \in
       {None} \cup {<<[crs |-> "EPSG:4326", rows |-> t]>> : t \in BoundaryTables}
  /\ geocoding_cache = <<>>
  /\ df = <<>>
  /\ idx = 0
  /\ output = None
  /\ summary = <<>>
  /\ checked = None
  /\ log = <<>>

\* check_tribal_land(lat, lon) returns (lines 182-195)
ApiCheckTribalLand ==
  /\ pc = "api"
  /\ \E c \in CheckArgs, d \in DownloadResponses :
       LET b == EnsureBoundaries(tribal_boundaries, d) IN
       /\ b # None
       /\ checked' = <<[lat |-> c[1], lon |-> c[2], ret |-> check_tribal_land(b[1], c[1], c[2])]>>
       /\ tribal_boundaries' = b
       /\ log' = log \o DownloadEvents(tribal_boundaries, d)
  /\ UNCHANGED <<pc, geocoding_cache, df, idx, output, summary>>

\* check_tribal_land(lat, lon) raises: the download failed (lines 182-184, 69-74)
ApiCheckDownloadFails ==
  /\ pc = "api"
  /\ \E d \in DownloadResponses :
       /\ EnsureBoundaries(tribal_boundaries, d) = None
       /\ log' = log \o DownloadEvents(tribal_boundaries, d)
  /\ pc' = "aborted"
  /\ UNCHANGED <<tribal_boundaries, geocoding_cache, df, idx, output, summary, checked>>

NextMember ==
  \/ ApiCheckTribalLand
  \/ ApiCheckDownloadFails

SpecMember == InitMember /\ [][NextMember]_vars

----------------------------------------------------------------------------
(* Reading the history *)

Geocodes == {i \in DOMAIN log : log[i].e = "geocode"}
Requests == {i \in DOMAIN log : log[i].e \in {"P1", "P2"}}
RequestsOfRow(r) == {i \in Requests : log[i].row = r}

\* A request during which the provider raised
Raised(ev) == ev.e \in {"P1", "P2"} /\ ev.r \in {"error", "malformed"}

\* geocode_address returned a coordinate for row r
GeocodedRow(r) == \E i \in Geocodes : log[i].row = r /\ log[i].v # None

\* An address cell that is missing, empty or whitespace-only
Blank(address) == isna(address) \/ strip(address) = <<>>

RECURSIVE SumOver(_, _)
SumOver(f, S) ==
  IF S = {} THEN 0
  ELSE LET x == CHOOSE y \in S : TRUE IN f[x] + SumOver(f, S \ {x})

\* The events a step appends to the history
NewEvents == (Len(log) + 1)..Len(log')

----------------------------------------------------------------------------
(* Claims *)

\* C1 - Cache idempotence: of two geocode_address calls with the same (non-blank)
\* address string in one run, the later one makes no provider request and
\* returns what the earlier one returned.
C1_CacheIdempotence ==
  \A i, j \in Geocodes :
    (i < j /\ log[i].q = log[j].q /\ ~Blank(log[i].q)) =>
      /\ RequestsOfRow(log[j].row) = {}
      /\ log[j].v = log[i].v

\* C2 - Trimmed lookup: whenever geocode_address is called with a (non-blank)
\* address whose trimmed form has an entry in the cache, the call returns that
\* entry and makes no provider request.
C2_TrimmedLookup ==
  [][ (/\ InLoop
       /\ ~Blank(df[idx].address)
       /\ strip(df[idx].address) \in DOMAIN geocoding_cache
       /\ Len(log') > Len(log))
      => /\ \A k \in NewEvents : log'[k].e \notin {"P1", "P2"}
         /\ log'[Len(log) + 1].v = geocoding_cache[strip(df[idx].address)] ]_vars

\* C3 - Provider ordering: every geocode_address call that misses the cache
\* calls Provider 1 first, and every Provider 2 call comes right after a
\* Provider 1 call of the same resolve that answered an empty result (so never
\* after a Provider 1 match or a Provider 1 error).
C3_ProviderOrdering ==
  /\ \A i \in Geocodes :
       log[i].r = "miss" =>
         /\ i < Len(log)
         /\ log[i + 1].e = "P1"
         /\ log[i + 1].row = log[i].row
  /\ \A j \in DOMAIN log :
       log[j].e = "P2" =>
         /\ j > 1
         /\ log[j - 1].e = "P1"
         /\ log[j - 1].r = "empty"
         /\ log[j - 1].row = log[j].row
         /\ log[j - 1].q = log[j].q

C3_Witness ==
  \E j \in DOMAIN log :
    /\ log[j].e = "P2"
    /\ log[j].row = 2
    /\ \E i \in DOMAIN log : log[i].e = "P1" /\ log[i].row = 1 /\ log[i].r # "empty"

\* C4 - Provider 1 pacing: between any two Provider 1 requests of a run there
\* is a time.sleep(1). Stated for requests for two different non-blank
\* addresses, where neither the cache lookup nor the blank filter plays a part.
C4_Provider1Pacing ==
  \A i, j \in DOMAIN log :
    (/\ i < j /\ log[i].e = "P1" /\ log[j].e = "P1"
     /\ log[i].q # <<>> /\ log[j].q # <<>> /\ log[i].q # log[j].q) =>
      \E k \in DOMAIN log : i < k /\ k < j /\ log[k].e = "sleep"

\* C5 - Blank addresses bypass the resolver: every processed row whose address
\* cell is missing, empty or whitespace-only is labelled 'No Data', has no
\* Latitude/Longitude and caused no geocode_address call and no request.
C5_BlankBypass ==
  \A i \in DOMAIN df :
    (i < idx /\ Blank(df[i].address)) =>
      /\ df[i].On_Tribal_Land = "No Data"
      /\ df[i].Latitude = None
      /\ df[i].Longitude = None
      /\ \A k \in DOMAIN log : log[k].row # i

\* C6 - Exhaustive classification: when process_excel has completed, the table
\* written has one row per input row, every row carries one of the four labels,
\* and the counts of the summary are counts of these labels and sum to the
\* number of rows.
C6_ExhaustiveClassification ==
  pc = "done" =>
    /\ Len(output[1]) = Len(df)
    /\ \A i \in DOMAIN output[1] : output[1][i].On_Tribal_Land \in Labels
    /\ DOMAIN summary \subseteq Labels
    /\ SumOver(summary, DOMAIN summary) = Len(df)

C6_Witness ==
  /\ pc = "done"
  /\ Len(df) >= 2
  /\ Cardinality(DOMAIN summary) >= 2

\* C7 - Coordinate/label consistency: when process_excel has completed, a row
\* has Latitude and Longitude set if and only if geocode_address returned a
\* coordinate for it, which is exactly when its label is Yes or No; rows
\* labelled Could Not Geocode or No Data have neither.
C7_CoordinateLabelConsistency ==
  pc = "done" =>
    \A i \in DOMAIN df :
      /\ (df[i].Latitude # None /\ df[i].Longitude # None) <=> GeocodedRow(i)
      /\ GeocodedRow(i) <=> df[i].On_Tribal_Land \in {"Yes", "No"}
      /\ df[i].On_Tribal_Land \in {"Could Not Geocode", "No Data"} =>
           (df[i].Latitude = None /\ df[i].Longitude = None)

C7_Witness ==
  /\ pc = "done"
  /\ \E i \in DOMAIN df :
       /\ df[i].Latitude = <<0>>
       /\ df[i].Longitude = <<0>>
       /\ df[i].On_Tribal_Land \in {"Yes", "No"}
  /\ \E i \in DOMAIN df : df[i].On_Tribal_Land = "Could Not Geocode"

\* C8 - Provider errors are contained: a turn of the loop in which a provider
\* raises does not abort the run; it caches the trimmed address as a failure,
\* geocode_address returns nothing, the row is labelled Could Not Geocode and
\* the loop goes on with the next row.
C8_ProviderErrorsContained ==
  [][ (\E k \in NewEvents : Raised(log'[k]))
      => /\ pc' = "loop"
         /\ idx' = idx + 1
         /\ Len(df') = Len(df)
         /\ df'[idx].On_Tribal_Land = "Could Not Geocode"
         /\ log'[Len(log) + 1].e = "geocode"
         /\ log'[Len(log) + 1].v = None
         /\ strip(df[idx].address) \in DOMAIN geocoding_cache'
         /\ geocoding_cache'[strip(df[idx].address)] = None ]_vars

C8_Witness ==
  \E k \in DOMAIN log :
    /\ Raised(log[k])
    /\ df[log[k].row].On_Tribal_Land = "Could Not Geocode"
    /\ \E m \in DOMAIN df : m > log[k].row /\ df[m].On_Tribal_Land \in {"Yes", "No"}

\* C9 (as claimed) - An error of Provider 1 is treated as no match from it:
\* after a Provider 1 request that raised, Provider 2 is tried in the same
\* resolve.
C9_ErrorFallsBackToProvider2 ==
  \A k \in DOMAIN log :
    (log[k].e = "P1" /\ Raised(log[k])) =>
      /\ k < Len(log)
      /\ log[k + 1].e = "P2"
      /\ log[k + 1].row = log[k].row

\* C9 (amended) - A provider error ends the resolve with a failure: a request
\* that raised is the last event of its geocode_address call, which returns
\* nothing; Provider 2 is tried only after an empty result of Provider 1, so
\* not after Provider 1 raised.
C9_ErrorEndsResolve ==
  \A k \in DOMAIN log :
    Raised(log[k]) =>
      /\ \A m \in DOMAIN log : m > k => log[m].row # log[k].row
      /\ \E i \in Geocodes : log[i].row = log[k].row /\ log[i].v = None
      /\ log[k].e = "P2" => (log[k - 1].e = "P1" /\ log[k - 1].r = "empty")

C9_Witness ==
  \E k \in DOMAIN log :
    /\ log[k].e = "P1"
    /\ log[k].r = "error"
    /\ df[log[k].row].On_Tribal_Land = "Could Not Geocode"
    /\ idx > Len(df)

\* C10 - Membership is an order-independent 'some' predicate: what
\* check_tribal_land(lat, lon) returned is true exactly when some row of the
\* boundary table contains the point <<lon, lat>>, the loop gives the same
\* answer for every order of the rows, and it is false for an empty table.
C10_MembershipIsSome ==
  checked # None =>
    LET c == checked[1]
        rows == tribal_boundaries[1].rows
        some == \E i \in DOMAIN rows : <<c.lon, c.lat>> \in rows[i].geometry
    IN /\ c.ret = some
       /\ \A p \in Permutations(DOMAIN rows) :
            check_tribal_land([crs |-> "EPSG:4326", rows |-> [i \in DOMAIN rows |-> rows[p[i]]]],
                              c.lat, c.lon) = some
       /\ rows = <<>> => c.ret = FALSE

C10_Witness ==
  /\ checked # None
  /\ checked[1].ret = TRUE
  /\ Len(tribal_boundaries[1].rows) >= 3
  /\ <<checked[1].lon, checked[1].lat>> \notin tribal_boundaries[1].rows[1].geometry
  /\ <<checked[1].lat, checked[1].lon>> \in tribal_boundaries[1].rows[1].geometry

\* The reads of a boundary dataset, from a file or from the remote archive
Loads == {k \in DOMAIN log : log[k].e \in {"load", "download"}}

\* C11 - Boundary loading is one-time and fatal on failure: a run reads a
\* boundary dataset at most once; after a read that failed the run is aborted
\* and no row is labelled Yes or No; a row labelled Yes or No was classified
\* with a boundary table in place that a successful read put there before.
C11_LoadOnceAndFatal ==
  /\ Cardinality(Loads) <= 1
  /\ \A k \in Loads :
       log[k].r = "error" =>
         /\ pc = "aborted"
         /\ tribal_boundaries = None
         /\ output = None
         /\ \A i \in DOMAIN df : df[i].On_Tribal_Land \notin {"Yes", "No"}
  /\ \A i \in DOMAIN df :
       df[i].On_Tribal_Land \in {"Yes", "No"} =>
         /\ tribal_boundaries # None
         /\ \E k \in Loads :
              /\ log[k].r = "ok"
              /\ log[k].row <= i

C11_Witness ==
  /\ \E k \in Loads : log[k].e = "download" /\ log[k].r = "ok"
  /\ Len(df) = 2
  /\ \A i \in DOMAIN df : df[i].On_Tribal_Land \in {"Yes", "No"}

\* C12 - Cached entries are write-once: a step never removes or changes the
\* value the cache holds for a (non-blank) key.
C12_CacheWriteOnce ==
  [][ \A k \in DOMAIN geocoding_cache :
        k # <<>> =>
          /\ k \in DOMAIN geocoding_cache'
          /\ geocoding_cache'[k] = geocoding_cache[k] ]_vars

\* The degrees a numeric text of a Nominatim item stands for
Degrees(text) ==
  CASE text = "0.0" -> 0 [] text = "35.0" -> 35 [] text = "-110.0" -> -110

Numeric(text) == text \in {"0.0", "35.0", "-110.0"}

\* What the decision table of the resolver gives for the requests `events` of
\* one call (the events after its "geocode" event)
Decision(events) ==
  LET p1 == events[1] IN
  IF p1.r # "error" /\ p1.v # <<>> /\ Numeric(p1.v[1].lat) /\ Numeric(p1.v[1].lon)
  THEN <<Degrees(p1.v[1].lat), Degrees(p1.v[1].lon)>>
  ELSE IF /\ p1.r # "error" /\ p1.v = <<>>
          /\ Len(events) >= 2 /\ events[2].e = "P2"
          /\ events[2].r # "error" /\ events[2].v # <<>>
  THEN <<events[2].v[1].y, events[2].v[1].x>>
  ELSE None

\* C13 - Resolver decision table: a geocode_address call that misses the cache
\* returns Provider 1's first match when Provider 1 answered a (parsable)
\* match, Provider 2's first match when Provider 1 answered an empty result
\* and Provider 2 a match, and nothing otherwise; what it returns is what the
\* cache holds for the trimmed address when it returns.
C13_DecisionTable ==
  [][ (Len(log') > Len(log) /\ log'[Len(log) + 1].e = "geocode"
         /\ log'[Len(log) + 1].r = "miss")
      => LET call == log'[Len(log) + 1]
             requests == SelectSeq(SubSeq(log', Len(log) + 2, Len(log')),
                                   LAMBDA ev : ev.e \in {"P1", "P2"})
         IN /\ requests # <<>>
            /\ requests[1].e = "P1"
            /\ call.v = Decision(requests)
            /\ strip(call.q) \in DOMAIN geocoding_cache'
            /\ geocoding_cache'[strip(call.q)] = call.v ]_vars

C13_Witness ==
  \E i, j \in Geocodes :
    /\ log[i].v = <<10, 20>>
    /\ i + 2 <= Len(log)
    /\ log[i + 2].e = "P2"
    /\ Len(log[i + 2].v) = 2
    /\ log[j].v = <<35, -110>>
    /\ j + 1 <= Len(log)
    /\ log[j + 1].e = "P1"
    /\ log[j + 1].r = "match"

\* C14 - The delay belongs to a Provider 1 round trip: a geocode_address call
\* answered from the cache makes no request, no delay and no cache write; every
\* time.sleep(1) comes right after a Provider 1 request (one that answered a
\* match), so never after a Provider 2 request or in a call answered from the
\* cache.
C14_DelayOnlyAfterProvider1 ==
  [][ /\ (Len(log') > Len(log) /\ log'[Len(log) + 1].e = "geocode"
            /\ log'[Len(log) + 1].r = "hit")
         => /\ \A k \in NewEvents : k > Len(log) + 1 => log'[k].e = "download"
            /\ geocoding_cache' = geocoding_cache
      /\ \A k \in NewEvents :
           log'[k].e = "sleep" =>
             /\ k > 1
             /\ log'[k - 1].e = "P1"
             /\ log'[k - 1].r = "match"
             /\ log'[k - 1].row = log'[k].row ]_vars

C14_Witness ==
  /\ \E i \in Geocodes : log[i].r = "hit" /\ log[i].v # None
  /\ \E k \in DOMAIN log : log[k].e = "sleep"

\* C15 - Boundary coordinate system: once check_tribal_land has run its loop,
\* the boundary table it used is in EPSG:4326, however it was obtained.
C15_BoundariesNormalized ==
  checked # None => tribal_boundaries[1].crs = "EPSG:4326"

Labelled(table, i) == table[i].On_Tribal_Land # NoLabel

\* C16 - Per-row state machine: in the loop the rows before idx are exactly
\* the labelled ones (rows are taken one at a time, in input order); a step
\* changes at most the label of the row at idx, from unset to one of the four
\* labels, and then moves to the next row; a label once set does not change;
\* geocode_address is called at most once for a row.
C16_RowStateMachine ==
  [][ /\ pc' = "loop" => \A i \in DOMAIN df' : Labelled(df', i) <=> i < idx'
      /\ pc = "loop" =>
           /\ Len(df') = Len(df)
           /\ \A i \in DOMAIN df :
                /\ df'[i].address = df[i].address
                /\ Labelled(df, i) => df'[i] = df[i]
                /\ df'[i].On_Tribal_Land # df[i].On_Tribal_Land =>
                     /\ i = idx
                     /\ df'[i].On_Tribal_Land \in Labels
                     /\ idx' = idx + 1
           /\ idx' \in {idx, idx + 1}
      /\ \A r \in DOMAIN df' :
           Cardinality({k \in DOMAIN log' : log'[k].e = "geocode" /\ log'[k].row = r}) <= 1
    ]_vars

C16_Witness ==
  /\ pc = "loop"
  /\ idx = 2
  /\ Len(df) = 2
  /\ df[1].On_Tribal_Land = "No Data"
  /\ df[2].On_Tribal_Land = NoLabel

\* C17 - Every coordinate geocode_address returns counts as a success,
\* whatever its numbers: the row gets exactly that Latitude and Longitude and,
\* unless the boundary download aborts the run, the label Yes or No, never
\* Could Not Geocode; a row is labelled Could Not Geocode only when
\* geocode_address returned nothing for it.
C17_AnyCoordinateIsSuccess ==
  /\ \A i \in Geocodes :
       log[i].v # None =>
         /\ df[log[i].row].Latitude = <<log[i].v[1]>>
         /\ df[log[i].row].Longitude = <<log[i].v[2]>>
         /\ df[log[i].row].On_Tribal_Land # "Could Not Geocode"
         /\ pc # "aborted" => df[log[i].row].On_Tribal_Land \in {"Yes", "No"}
  /\ \A r \in DOMAIN df :
       df[r].On_Tribal_Land = "Could Not Geocode" =>
         \E i \in Geocodes : log[i].row = r /\ log[i].v = None

C17_Witness ==
  \E i \in Geocodes :
    /\ log[i].v = <<0, 0>>
    /\ log[i].r = "miss"
    /\ df[log[i].row].Latitude = <<0>>
    /\ df[log[i].row].On_Tribal_Land = "No"
    /\ pc = "loop"

\* C18 - Lazy download: the remote archive is read only in the turn of the
\* first row for which geocode_address returned a coordinate (so not before,
\* and not at all when there is none); when that read fails the run is aborted
\* with nothing written; a table that was written has every row labelled.
C18_LazyDownloadAllOrNothing ==
  /\ \A k \in DOMAIN log :
       log[k].e = "download" =>
         /\ \E i \in Geocodes : i < k /\ log[i].row = log[k].row /\ log[i].v # None
         /\ \A i \in Geocodes : log[i].row < log[k].row => log[i].v = None
         /\ log[k].r = "error" => (pc = "aborted" /\ output = None)
  /\ pc = "aborted" => output = None
  /\ output # None =>
       /\ pc = "done"
       /\ Len(output[1]) = Len(df)
       /\ \A i \in DOMAIN output[1] : output[1][i].On_Tribal_Land \in Labels

C18_Witness ==
  \E k \in DOMAIN log :
    /\ log[k].e = "download"
    /\ log[k].r = "error"
    /\ log[k].row = 2
    /\ df[1].On_Tribal_Land = "Could Not Geocode"
    /\ df[2].Latitude # None
    /\ df[2].On_Tribal_Land = NoLabel

====
